---- MODULE Spec2Model ----
(***************************************************************************)
(* A model of src/clients.py: the client/phone data-access layer on top of *)
(* a PostgreSQL connection driven through psycopg2.                        *)
(*                                                                         *)
(* The committed tables are `clients` and `phones`.  Every connection has  *)
(* a transaction (psycopg2 opens one at the first execute) whose           *)
(* uncommitted writes are kept apart from the committed tables until       *)
(* conn.commit().  A Python call is a stack of function frames and a       *)
(* program counter naming the next SQL statement or commit; connections    *)
(* interleave between those steps.                                         *)
(***************************************************************************)
EXTENDS Integers, Sequences, FiniteSets

(***************************************************************************)
(* Bounds of the model.                                                    *)
(***************************************************************************)
MaxClientId == 2      \* values the clients.client_id sequence may hand out
MaxPhoneId == 3       \* values the phones.phone_id sequence may hand out
MaxCalls == 3         \* calls made on the single connection of Spec
MaxConcCalls == 3     \* calls made, in total, by the two connections of SpecConc

(***************************************************************************)
(* Program constants.                                                      *)
(***************************************************************************)
NameMaxLen == 50      \* first_name, last_name, email VARCHAR(50)
PhoneMaxLen == 20     \* phone_number VARCHAR(20)
NoId == 0             \* Python None / SQL NULL where a client_id is expected

(***************************************************************************)
(* Values.  A Python str is a sequence of one-character strings; None is   *)
(* a value apart from every str, and NoneList is None where a list of      *)
(* phones is expected.                                                     *)
(***************************************************************************)
None == <<"None">>
NoneList == <<<<"None", "list">>>>
Conns == {"a", "b"}

\* Arguments of the calls.  With one connection open they are drawn from the wider
\* sets; with two connections open, where the interleavings multiply, from narrower ones.
Wide(open) == Cardinality(open) = 1

AddFirstNames(open) == IF Wide(open) THEN {<<"a">>, <<"b">>} ELSE {<<"a">>}
AddLastNames(open) == {<<"x">>}
AddEmails(open) == IF Wide(open) THEN {None, <<"a">>, <<"a", "b">>} ELSE {None, <<"a">>}
AddPhoneLists(open) ==
    IF Wide(open) THEN {NoneList, <<<<"1">>>>, <<<<"1">>, <<"1", "2">>>>, <<<<"1">>, None>>}
    ELSE {NoneList, <<<<"1">>>>}

UpsertFirstNames(open) == IF Wide(open) THEN {<<"a">>, <<"b">>} ELSE {<<"b">>}
UpsertLastNames(open) == {<<"y">>}
UpsertEmails(open) == IF Wide(open) THEN {None, <<"a">>, <<"a", "b">>} ELSE {<<"a">>}
UpsertPhoneLists(open) ==
    IF Wide(open) THEN {NoneList, <<<<"1", "2">>>>, <<<<"1">>, None>>}
    ELSE {NoneList, <<<<"1", "2">>>>}

ChangeClientIds(open) == IF Wide(open) THEN 0..MaxClientId ELSE 1..MaxClientId
ChangeFirstNames(open) == {None, <<"b">>}
ChangeLastNames(open) == IF Wide(open) THEN {None, <<"y">>} ELSE {None}
ChangeEmails(open) == {None, <<"a">>}
ChangePhoneLists(open) ==
    IF Wide(open)
    THEN {NoneList, <<>>, <<<<"1", "2">>, <<"1">>>>, <<<<"1">>, <<"1">>>>, <<<<"1">>, None>>}
    ELSE {NoneList, <<<<"1">>>>}

PhoneClientIds(open) == IF Wide(open) THEN 0..MaxClientId ELSE {1}
PhoneNumbers(open) == IF Wide(open) THEN {<<"1">>, <<"1", "2">>} ELSE {<<"1">>}
AddPhoneNumbers(open) == IF Wide(open) THEN {<<"1">>, <<"1", "2">>, None} ELSE {<<"1">>}

FindFirstNames(open) == IF Wide(open) THEN {None, <<"a">>} ELSE {None}
FindLastNames(open) == IF Wide(open) THEN {None, <<"x">>} ELSE {None}
FindEmails(open) == IF Wide(open) THEN {None, <<>>, <<"a">>, <<"_">>} ELSE {None}
FindPhones(open) == IF Wide(open) THEN {None, <<"2">>} ELSE {None, <<"1">>}

VARIABLES
    clients,      \* committed rows of table clients
    phones,       \* committed rows of table phones
    client_seq,   \* last value of the sequence behind clients.client_id
    phone_seq,    \* last value of the sequence behind phones.phone_id
    tx,           \* per connection: transaction status and uncommitted writes
    call,         \* per connection: the running (or last) top-level call and its arguments
    stack,        \* per connection: the function frames of the running call
    pc,           \* per connection: the next step of the innermost frame
    loc,          \* per connection: local variables (client_id, loop index, existing)
    result,       \* per connection: outcome of the last call
    pre,          \* per connection: the committed tables when the call started
    conns,        \* the connections that are open
    budget        \* calls that may still be started

vars == <<clients, phones, client_seq, phone_seq, tx, call, stack, pc, loc, result, pre,
          conns, budget>>

db == <<clients, phones>>
seqs == <<client_seq, phone_seq>>

(***************************************************************************)
(* The schema of create_db.                                                *)
(***************************************************************************)
\* as ClientRow, with the two name columns of the INSERT exchanged
ClientRow_swapped(id, fn, ln, em) ==
    [client_id |-> id, first_name |-> ln, last_name |-> fn, email |-> em]

ClientRow(id, fn, ln, em) ==
    [client_id |-> id, first_name |-> fn, last_name |-> ln, email |-> em]

PhoneRow(pid, cid, num) ==
    [phone_id |-> pid, client_id |-> cid, phone_number |-> num]

\* email VARCHAR(50) UNIQUE: no two rows of a table state share a non-null email
EmailUnique(rows) ==
    \A r1 \in rows : \A r2 \in rows :
        (r1.email # None /\ r1.email = r2.email) => r1.client_id = r2.client_id

\* client_id INTEGER REFERENCES clients(client_id): a non-null reference resolves
ForeignKeyHolds(crows, prows) ==
    \A p \in prows :
        p.client_id # NoId => \E r \in crows : r.client_id = p.client_id

(***************************************************************************)
(* Transactions.                                                           *)
(*   wcl: client rows written (inserted, or the new version of an update)  *)
(*   dcl: client_ids whose committed row this transaction updated/deleted  *)
(*   wph: phone rows inserted          dph: phone_ids deleted              *)
(* A statement sees the committed rows and its own transaction's writes    *)
(* (READ COMMITTED).  A failed statement aborts the transaction: its       *)
(* writes and locks are dropped at once, and every further statement       *)
(* fails until conn.rollback() or conn.commit().                           *)
(***************************************************************************)
IdleTx == [status |-> "idle", wcl |-> {}, dcl |-> {}, wph |-> {}, dph |-> {}]
AbortedTx == [IdleTx EXCEPT !.status = "aborted"]

ViewClients(c) == {r \in clients : r.client_id \notin tx[c].dcl} \cup tx[c].wcl
ViewPhones(c) == {p \in phones : p.phone_id \notin tx[c].dph} \cup tx[c].wph

Others(c) == conns \ {c}

\* d has updated or deleted the committed row id (a row lock of d)
HoldsRow(d, id) == id \in tx[d].dcl

\* d has deleted row id or changed its key column email (FOR UPDATE)
HoldsRowKey(d, id) ==
    /\ id \in tx[d].dcl
    /\ \A w \in tx[d].wcl :
           w.client_id = id => \E r \in clients : r.client_id = id /\ r.email # w.email

\* d has inserted a phone that references client id (FOR KEY SHARE of the foreign key check)
HoldsKeyShare(d, id) == \E p \in tx[d].wph : p.client_id = id

\* as UniqueViolated, for a column email declared without UNIQUE
UniqueViolated_never(c, id, em) == FALSE

\* email VARCHAR(50) UNIQUE, as a statement of c checks it: another row that c
\* sees already holds the non-null email em
UniqueViolated(c, id, em) ==
    em # None /\ \E o \in ViewClients(c) : o.client_id # id /\ o.email = em

\* as TouchesEmail, for a uniqueness check that looks at the visible rows only and
\* does not wait for the uncommitted rows of other transactions
TouchesEmail_never(d, em) == FALSE

\* d has an uncommitted write that puts email em into, or takes it out of, the unique index
TouchesEmail(d, em) ==
    \/ \E w \in tx[d].wcl : w.email = em
    \/ \E r \in clients : r.client_id \in tx[d].dcl /\ r.email = em

(***************************************************************************)
(* Python side: exceptions.  psycopg2 raises IntegrityError for the        *)
(* unique, not-null and foreign-key violations, DataError for a value too  *)
(* long for its column, InternalError for a statement in an aborted        *)
(* transaction and OperationalError for a deadlock victim; all of them     *)
(* derive from psycopg2.Error.                                             *)
(***************************************************************************)
Psycopg2Errors == {"IntegrityError", "DataError", "InternalError", "OperationalError"}

\* the except clause of one frame: the exception leaving the frame and whether
\* the frame called conn.rollback()
Handler(fn, exc) ==
    IF fn = "add_client" /\ exc.cls = "IntegrityError"
    THEN [cls |-> "ValueError", rollback |-> TRUE]
    ELSE IF fn = "add_or_update_client" /\ exc.cls \in Psycopg2Errors
    THEN [cls |-> "ValueError", rollback |-> TRUE]
    ELSE exc

\* an exception raised in the innermost frame of st travels down the frames
RECURSIVE Unwind(_, _)
Unwind(st, exc) ==
    IF st = <<>> THEN exc
    ELSE Unwind(SubSeq(st, 1, Len(st) - 1), Handler(st[Len(st)], exc))

NoResult == [status |-> "none", exc |-> "", cause |-> "", id |-> NoId, rows |-> {}]
Ok(id, rows) == [status |-> "ok", exc |-> "", cause |-> "", id |-> id, rows |-> rows]
Error(cls, cause) == [status |-> "error", exc |-> cls, cause |-> cause, id |-> NoId, rows |-> {}]

\* a statement of connection c failed in the database with (cls, cause): the
\* transaction is aborted, the exception unwinds the frames, and the call ends
Raise(c, cls, cause) ==
    LET out == Unwind(stack[c], [cls |-> cls, rollback |-> FALSE])
    IN /\ tx' = [tx EXCEPT ![c] = IF out.rollback THEN IdleTx ELSE AbortedTx]
       /\ result' = [result EXCEPT ![c] = Error(out.cls, cause)]
       /\ stack' = [stack EXCEPT ![c] = <<>>]
       /\ pc' = [pc EXCEPT ![c] = "done"]

\* the call of connection c returns
Finish(c, id, rows) ==
    /\ result' = [result EXCEPT ![c] = Ok(id, rows)]
    /\ stack' = [stack EXCEPT ![c] = <<>>]
    /\ pc' = [pc EXCEPT ![c] = "done"]

\* conn.commit(): the transaction's writes become the committed rows
Commit(c) ==
    /\ clients' = ViewClients(c)
    /\ phones' = ViewPhones(c)
    /\ tx' = [tx EXCEPT ![c] = IdleTx]

\* a statement that succeeded leaves the transaction open with the writes w
Active(w) == [w EXCEPT !.status = "active"]

TooLong(s, n) == s # None /\ Len(s) > n

(***************************************************************************)
(* Calls.                                                                  *)
(***************************************************************************)
NoCall == [op |-> "none", first_name |-> None, last_name |-> None, email |-> None,
           phones |-> NoneList, client_id |-> NoId, phone |-> None]
NoLoc == [client_id |-> NoId, i |-> 0, existing |-> NoId]

Ready(c) == c \in conns /\ pc[c] \in {"idle", "done"} /\ budget > 0

\* connection c starts the call cl in frame fn at step p
Start(c, cl, fn, p, id) ==
    /\ call' = [call EXCEPT ![c] = cl]
    /\ stack' = [stack EXCEPT ![c] = <<fn>>]
    /\ pc' = [pc EXCEPT ![c] = p]
    /\ loc' = [loc EXCEPT ![c] = [NoLoc EXCEPT !.client_id = id]]
    /\ result' = [result EXCEPT ![c] = NoResult]
    /\ pre' = [pre EXCEPT ![c] = [clients |-> clients, phones |-> phones]]
    /\ budget' = budget - 1
    /\ UNCHANGED <<db, seqs, tx, conns>>

\* the phone and client_id parameters of the running add_phone frame
CurPhone(c) == IF Len(stack[c]) = 1 THEN call[c].phone ELSE call[c].phones[loc[c].i]

\* WHERE client_id = %s on a phone row: a NULL on either side matches no row
RefersTo(p, id) == id # NoId /\ p.client_id = id

\* the connections whose uncommitted writes the next statement of c waits for
WaitsFor(c) ==
    IF tx[c].status = "aborted" THEN {}
    ELSE CASE pc[c] = "ac_insert" ->
                IF \/ call[c].first_name = None \/ call[c].last_name = None \/ call[c].email = None
                   \/ TooLong(call[c].first_name, NameMaxLen)
                   \/ TooLong(call[c].last_name, NameMaxLen)
                   \/ TooLong(call[c].email, NameMaxLen)
                THEN {}
                ELSE {d \in Others(c) : TouchesEmail(d, call[c].email)}
           [] pc[c] = "ap_insert" ->
                IF CurPhone(c) = None \/ TooLong(CurPhone(c), PhoneMaxLen) THEN {}
                ELSE {d \in Others(c) : HoldsRowKey(d, loc[c].client_id)}
           [] pc[c] = "cc_update" ->
                IF /\ \E r \in ViewClients(c) : r.client_id = loc[c].client_id
                   /\ ~ TooLong(call[c].first_name, NameMaxLen)
                   /\ ~ TooLong(call[c].last_name, NameMaxLen)
                   /\ ~ TooLong(call[c].email, NameMaxLen)
                THEN LET r == CHOOSE r \in ViewClients(c) : r.client_id = loc[c].client_id
                     IN {d \in Others(c) : HoldsRow(d, r.client_id)}
                        \cup IF call[c].email # None /\ call[c].email # r.email
                             THEN {d \in Others(c) : HoldsKeyShare(d, r.client_id)
                                                     \/ TouchesEmail(d, call[c].email)}
                             ELSE {}
                ELSE {}
           [] pc[c] = "cc_delete" ->
                {d \in Others(c) : \E p \in ViewPhones(c) :
                     RefersTo(p, loc[c].client_id) /\ p.phone_id \in tx[d].dph}
           [] pc[c] = "dp_delete" ->
                {d \in Others(c) : \E p \in ViewPhones(c) :
                     /\ RefersTo(p, loc[c].client_id) /\ p.phone_number = call[c].phone
                     /\ p.phone_id \in tx[d].dph}
           [] pc[c] = "dc_delete" ->
                IF \E r \in ViewClients(c) : r.client_id = loc[c].client_id
                THEN {d \in Others(c) :
                        \/ HoldsRow(d, loc[c].client_id)
                        \/ HoldsKeyShare(d, loc[c].client_id)
                        \/ \E p \in ViewPhones(c) :
                               p.client_id = loc[c].client_id /\ p.phone_id \in tx[d].dph}
                ELSE {}
           [] OTHER -> {}

\* as DeletePhoneRows, for a DELETE that removes no row
DeletePhoneRows_keep(c, gone) == Active(tx[c])

\* DELETE FROM phones: the transaction of c after deleting the visible phone rows gone
DeletePhoneRows(c, gone) ==
    Active([tx[c] EXCEPT !.wph = @ \ gone,
                         !.dph = @ \cup {p.phone_id : p \in gone \cap phones}])

(***************************************************************************)
(* add_phone                                                               *)
(***************************************************************************)
add_phone_call(c) ==
    /\ Ready(c)
    /\ \E id \in PhoneClientIds(conns) : \E ph \in AddPhoneNumbers(conns) :
           Start(c, [NoCall EXCEPT !.op = "add_phone", !.client_id = id, !.phone = ph],
                 "add_phone", "ap_insert", id)

\* cur.execute(INSERT INTO phones(client_id, phone_number) VALUES (%s, %s))
add_phone_insert(c) ==
    /\ c \in conns /\ pc[c] = "ap_insert"
    /\ WaitsFor(c) = {}
    /\ LET cid == loc[c].client_id
           ph == CurPhone(c)
       IN IF tx[c].status = "aborted"
          THEN Raise(c, "InternalError", "InFailedSqlTransaction") /\ UNCHANGED phone_seq
          ELSE IF TooLong(ph, PhoneMaxLen)
          THEN Raise(c, "DataError", "StringDataRightTruncation") /\ UNCHANGED phone_seq
          ELSE /\ phone_seq < MaxPhoneId
               /\ phone_seq' = phone_seq + 1
               /\ IF ph = None
                  THEN Raise(c, "IntegrityError", "NotNullViolation")
                  ELSE IF cid # NoId /\ ~ \E r \in ViewClients(c) : r.client_id = cid
                  THEN Raise(c, "IntegrityError", "ForeignKeyViolation")
                  ELSE /\ tx' = [tx EXCEPT ![c] =
                                   Active([@ EXCEPT !.wph = @ \cup {PhoneRow(phone_seq + 1, cid, ph)}])]
                       /\ pc' = [pc EXCEPT ![c] = "ap_commit"]
                       /\ UNCHANGED <<stack, result>>
    /\ UNCHANGED <<db, client_seq, call, loc, pre, conns, budget>>

\* conn.commit() of add_phone, and the return to the caller's loop over phones
add_phone_commit(c) ==
    /\ c \in conns /\ pc[c] = "ap_commit"
    /\ Commit(c)
    /\ IF Len(stack[c]) = 1
       THEN Finish(c, NoId, {}) /\ UNCHANGED loc
       ELSE IF loc[c].i < Len(call[c].phones)
       THEN /\ loc' = [loc EXCEPT ![c].i = @ + 1]
            /\ pc' = [pc EXCEPT ![c] = "ap_insert"]
            /\ UNCHANGED <<stack, result>>
       ELSE /\ stack' = [stack EXCEPT ![c] = SubSeq(@, 1, Len(@) - 1)]
            /\ pc' = [pc EXCEPT ![c] =
                        IF stack[c][Len(stack[c]) - 1] = "add_client" THEN "ac_commit" ELSE "cc_commit"]
            /\ UNCHANGED <<loc, result>>
    /\ UNCHANGED <<seqs, call, pre, conns, budget>>

(***************************************************************************)
(* add_client                                                              *)
(***************************************************************************)
add_client_call(c) ==
    /\ Ready(c)
    /\ \E fn \in AddFirstNames(conns) : \E ln \in AddLastNames(conns) :
       \E em \in AddEmails(conns) : \E phs \in AddPhoneLists(conns) :
           Start(c, [NoCall EXCEPT !.op = "add_client", !.first_name = fn, !.last_name = ln,
                                   !.email = em, !.phones = phs],
                 "add_client", "ac_insert", NoId)

\* cur.execute(INSERT INTO clients ... RETURNING client_id); client_id = cur.fetchone()[0];
\* if phones: the loop over phones begins
add_client_insert(c) ==
    /\ c \in conns /\ pc[c] = "ac_insert"
    /\ WaitsFor(c) = {}
    /\ LET fn == call[c].first_name
           ln == call[c].last_name
           em == call[c].email
           id == client_seq + 1
       IN IF tx[c].status = "aborted"
          THEN Raise(c, "InternalError", "InFailedSqlTransaction") /\ UNCHANGED <<client_seq, loc>>
          ELSE IF TooLong(fn, NameMaxLen) \/ TooLong(ln, NameMaxLen) \/ TooLong(em, NameMaxLen)
          THEN Raise(c, "DataError", "StringDataRightTruncation") /\ UNCHANGED <<client_seq, loc>>
          ELSE /\ client_seq < MaxClientId
               /\ client_seq' = id
               /\ IF fn = None \/ ln = None
                  THEN Raise(c, "IntegrityError", "NotNullViolation") /\ UNCHANGED loc
                  ELSE IF UniqueViolated(c, id, em)
                  THEN Raise(c, "IntegrityError", "UniqueViolation") /\ UNCHANGED loc
                  ELSE /\ tx' = [tx EXCEPT ![c] =
                                   Active([@ EXCEPT !.wcl = @ \cup {ClientRow(id, fn, ln, em)}])]
                       /\ IF call[c].phones # NoneList /\ call[c].phones # <<>>
                          THEN /\ stack' = [stack EXCEPT ![c] = Append(@, "add_phone")]
                               /\ pc' = [pc EXCEPT ![c] = "ap_insert"]
                               /\ loc' = [loc EXCEPT ![c].client_id = id, ![c].i = 1]
                          ELSE /\ pc' = [pc EXCEPT ![c] = "ac_commit"]
                               /\ loc' = [loc EXCEPT ![c].client_id = id]
                               /\ UNCHANGED stack
                       /\ UNCHANGED result
    /\ UNCHANGED <<db, phone_seq, call, pre, conns, budget>>

\* conn.commit(); return client_id
add_client_commit(c) ==
    /\ c \in conns /\ pc[c] = "ac_commit"
    /\ Commit(c)
    /\ Finish(c, loc[c].client_id, {})
    /\ UNCHANGED <<seqs, call, loc, pre, conns, budget>>

(***************************************************************************)
(* change_client                                                           *)
(***************************************************************************)
\* if updates: ... if phones is not None: ... conn.commit(): the first step that runs
ChangeClientFrom(cl, step) ==
    IF step = "cc_update"
       /\ (cl.first_name # None \/ cl.last_name # None \/ cl.email # None)
    THEN "cc_update"
    ELSE IF cl.phones # NoneList THEN "cc_delete" ELSE "cc_commit"

change_client_call(c) ==
    /\ Ready(c)
    /\ \E id \in ChangeClientIds(conns) : \E fn \in ChangeFirstNames(conns) :
       \E ln \in ChangeLastNames(conns) : \E em \in ChangeEmails(conns) :
       \E phs \in ChangePhoneLists(conns) :
           LET cl == [NoCall EXCEPT !.op = "change_client", !.client_id = id, !.first_name = fn,
                                    !.last_name = ln, !.email = em, !.phones = phs]
           IN Start(c, cl, "change_client", ChangeClientFrom(cl, "cc_update"), id)

\* as UpdatedRow, with email = %s in the SET list whether or not email was supplied
UpdatedRow_overwrite(r, cl) ==
    [r EXCEPT !.first_name = IF cl.first_name # None THEN cl.first_name ELSE @,
              !.last_name = IF cl.last_name # None THEN cl.last_name ELSE @,
              !.email = cl.email]

\* the row written by UPDATE clients SET {fields}: only the supplied fields change
UpdatedRow(r, cl) ==
    [r EXCEPT !.first_name = IF cl.first_name # None THEN cl.first_name ELSE @,
              !.last_name = IF cl.last_name # None THEN cl.last_name ELSE @,
              !.email = IF cl.email # None THEN cl.email ELSE @]

\* cur.execute(UPDATE clients SET {fields} WHERE client_id = %s)
change_client_update(c) ==
    /\ c \in conns /\ pc[c] = "cc_update"
    /\ WaitsFor(c) = {}
    /\ LET id == loc[c].client_id
           cl == call[c]
           hit == {r \in ViewClients(c) : r.client_id = id}
       IN IF tx[c].status = "aborted"
          THEN Raise(c, "InternalError", "InFailedSqlTransaction")
          ELSE IF TooLong(cl.first_name, NameMaxLen) \/ TooLong(cl.last_name, NameMaxLen)
                  \/ TooLong(cl.email, NameMaxLen)
          THEN Raise(c, "DataError", "StringDataRightTruncation")
          ELSE IF \E r \in hit : cl.email # r.email /\ UniqueViolated(c, id, cl.email)
          THEN Raise(c, "IntegrityError", "UniqueViolation")
          ELSE /\ tx' = [tx EXCEPT ![c] =
                           Active([@ EXCEPT
                               !.wcl = (@ \ hit) \cup {UpdatedRow(r, cl) : r \in hit},
                               !.dcl = @ \cup {r.client_id : r \in hit \cap clients}])]
               /\ pc' = [pc EXCEPT ![c] = ChangeClientFrom(cl, "cc_delete")]
               /\ UNCHANGED <<stack, result>>
    /\ UNCHANGED <<db, seqs, call, loc, pre, conns, budget>>

\* cur.execute(DELETE FROM phones WHERE client_id = %s); for phone in phones: begins
change_client_delete(c) ==
    /\ c \in conns /\ pc[c] = "cc_delete"
    /\ WaitsFor(c) = {}
    /\ IF tx[c].status = "aborted"
       THEN Raise(c, "InternalError", "InFailedSqlTransaction") /\ UNCHANGED loc
       ELSE /\ tx' = [tx EXCEPT ![c] =
                        DeletePhoneRows(c, {p \in ViewPhones(c) : RefersTo(p, loc[c].client_id)})]
            /\ IF call[c].phones # <<>>
               THEN /\ stack' = [stack EXCEPT ![c] = Append(@, "add_phone")]
                    /\ pc' = [pc EXCEPT ![c] = "ap_insert"]
                    /\ loc' = [loc EXCEPT ![c].i = 1]
               ELSE /\ pc' = [pc EXCEPT ![c] = "cc_commit"]
                    /\ UNCHANGED <<stack, loc>>
            /\ UNCHANGED result
    /\ UNCHANGED <<db, seqs, call, pre, conns, budget>>

\* conn.commit() of change_client; add_or_update_client then returns client_id
change_client_commit(c) ==
    /\ c \in conns /\ pc[c] = "cc_commit"
    /\ Commit(c)
    /\ Finish(c, IF Len(stack[c]) = 1 THEN NoId ELSE loc[c].client_id, {})
    /\ UNCHANGED <<seqs, call, loc, pre, conns, budget>>

(***************************************************************************)
(* delete_phone                                                            *)
(***************************************************************************)
delete_phone_call(c) ==
    /\ Ready(c)
    /\ \E id \in 1..MaxClientId : \E ph \in PhoneNumbers(conns) :
           Start(c, [NoCall EXCEPT !.op = "delete_phone", !.client_id = id, !.phone = ph],
                 "delete_phone", "dp_delete", id)

\* cur.execute(DELETE FROM phones WHERE client_id = %s AND phone_number = %s)
delete_phone_delete(c) ==
    /\ c \in conns /\ pc[c] = "dp_delete"
    /\ WaitsFor(c) = {}
    /\ IF tx[c].status = "aborted"
       THEN Raise(c, "InternalError", "InFailedSqlTransaction")
       ELSE /\ tx' = [tx EXCEPT ![c] =
                        DeletePhoneRows(c, {p \in ViewPhones(c) :
                            RefersTo(p, loc[c].client_id) /\ p.phone_number = call[c].phone})]
            /\ pc' = [pc EXCEPT ![c] = "dp_commit"]
            /\ UNCHANGED <<stack, result>>
    /\ UNCHANGED <<db, seqs, call, loc, pre, conns, budget>>

delete_phone_commit(c) ==
    /\ c \in conns /\ pc[c] = "dp_commit"
    /\ Commit(c)
    /\ Finish(c, NoId, {})
    /\ UNCHANGED <<seqs, call, loc, pre, conns, budget>>

(***************************************************************************)
(* delete_client                                                           *)
(***************************************************************************)
delete_client_call(c) ==
    /\ Ready(c)
    /\ \E id \in 1..MaxClientId :
           Start(c, [NoCall EXCEPT !.op = "delete_client", !.client_id = id],
                 "delete_client", "dc_delete", id)

\* cur.execute(DELETE FROM clients WHERE client_id = %s), with ON DELETE CASCADE to phones
delete_client_delete(c) ==
    /\ c \in conns /\ pc[c] = "dc_delete"
    /\ WaitsFor(c) = {}
    /\ LET id == loc[c].client_id
           hit == {r \in ViewClients(c) : r.client_id = id}
           owned == {p \in ViewPhones(c) : hit # {} /\ p.client_id = id}
       IN IF tx[c].status = "aborted"
          THEN Raise(c, "InternalError", "InFailedSqlTransaction")
          ELSE /\ tx' = [tx EXCEPT ![c] =
                           [DeletePhoneRows(c, owned) EXCEPT
                               !.wcl = @ \ hit,
                               !.dcl = @ \cup {r.client_id : r \in hit \cap clients}]]
               /\ pc' = [pc EXCEPT ![c] = "dc_commit"]
               /\ UNCHANGED <<stack, result>>
    /\ UNCHANGED <<db, seqs, call, loc, pre, conns, budget>>

delete_client_commit(c) ==
    /\ c \in conns /\ pc[c] = "dc_commit"
    /\ Commit(c)
    /\ Finish(c, NoId, {})
    /\ UNCHANGED <<seqs, call, loc, pre, conns, budget>>

(***************************************************************************)
(* add_or_update_client                                                    *)
(***************************************************************************)
add_or_update_client_call(c) ==
    /\ Ready(c)
    /\ \E fn \in UpsertFirstNames(conns) : \E ln \in UpsertLastNames(conns) :
       \E em \in UpsertEmails(conns) : \E phs \in UpsertPhoneLists(conns) :
           Start(c, [NoCall EXCEPT !.op = "add_or_update_client", !.first_name = fn,
                                   !.last_name = ln, !.email = em, !.phones = phs],
                 "add_or_update_client", "au_select", NoId)

\* cur.execute(SELECT client_id FROM clients WHERE email = %s); existing = cur.fetchone();
\* then change_client(conn, client_id, ...) or add_client(conn, ...) is entered
add_or_update_client_select(c) ==
    /\ c \in conns /\ pc[c] = "au_select"
    /\ LET found == {r \in ViewClients(c) : call[c].email # None /\ r.email = call[c].email}
       IN IF tx[c].status = "aborted"
          THEN Raise(c, "InternalError", "InFailedSqlTransaction") /\ UNCHANGED loc
          ELSE /\ tx' = [tx EXCEPT ![c] = Active(@)]
               /\ IF found # {}
                  THEN LET id == (CHOOSE r \in found : TRUE).client_id
                       IN /\ loc' = [loc EXCEPT ![c].client_id = id, ![c].existing = id]
                          /\ stack' = [stack EXCEPT ![c] = Append(@, "change_client")]
                          /\ pc' = [pc EXCEPT ![c] = ChangeClientFrom(call[c], "cc_update")]
                  ELSE /\ stack' = [stack EXCEPT ![c] = Append(@, "add_client")]
                       /\ pc' = [pc EXCEPT ![c] = "ac_insert"]
                       /\ UNCHANGED loc
               /\ UNCHANGED result
    /\ UNCHANGED <<db, seqs, call, pre, conns, budget>>

(***************************************************************************)
(* find_client                                                             *)
(***************************************************************************)
\* s LIKE pat: % matches any run of characters, _ any one character, and a
\* backslash takes the next pattern character literally
RECURSIVE Like(_, _)
Like(s, pat) ==
    IF pat = <<>> THEN s = <<>>
    ELSE IF pat[1] = "%"
    THEN \E k \in 0..Len(s) : Like(SubSeq(s, k + 1, Len(s)), Tail(pat))
    ELSE IF s = <<>> THEN FALSE
    ELSE IF pat[1] = "_" THEN Like(Tail(s), Tail(pat))
    ELSE IF pat[1] = "\\" /\ Len(pat) > 1
    THEN s[1] = pat[2] /\ Like(Tail(s), Tail(Tail(pat)))
    ELSE s[1] = pat[1] /\ Like(Tail(s), Tail(pat))

\* column LIKE pattern; a NULL column matches nothing
ColLike(v, pat) == v # None /\ Like(v, pat)

\* as Contains, for a pattern built without the two % around the value
Contains_exact(value) == value

\* f"%{value}%"
Contains(value) == <<"%">> \o value \o <<"%">>

\* Python truth of an Optional[str]
Truthy(s) == s # None /\ s # <<>>

\* array_agg(p.phone_number) over the LEFT JOIN: the numbers of the client's phones
\* with their multiplicities; one NULL for a client without phones
AggPhones(prows, id) ==
    LET own == {p \in prows : p.client_id = id}
    IN IF own = {} THEN [n \in {None} |-> 1]
       ELSE [n \in {p.phone_number : p \in own} |->
                Cardinality({p \in own : p.phone_number = n})]

Record(r, prows) ==
    [client_id |-> r.client_id, first_name |-> r.first_name, last_name |-> r.last_name,
     email |-> r.email, phones |-> AggPhones(prows, r.client_id)]

\* the parameters bound to the query: the three name/email patterns, the phone pattern first
FindParams(fn, ln, em, ph) ==
    (IF Truthy(ph) THEN <<Contains(ph)>> ELSE <<>>)
    \o (IF Truthy(fn) THEN <<Contains(fn)>> ELSE <<>>)
    \o (IF Truthy(ln) THEN <<Contains(ln)>> ELSE <<>>)
    \o (IF Truthy(em) THEN <<Contains(em)>> ELSE <<>>)

\* the %s placeholders of the query text
FindPlaceholders(fn, ln, em, ph) ==
    IF Truthy(ph) THEN 1
    ELSE Len(FindParams(fn, ln, em, None))

\* the rows of the query text that find_client builds, over the tables (crows, prows)
FindRows(crows, prows, fn, ln, em, ph) ==
    {Record(r, prows) : r \in
        {r \in crows :
            IF Truthy(ph)
            THEN \E p \in prows : p.client_id = r.client_id /\ ColLike(p.phone_number, Contains(ph))
            ELSE /\ Truthy(fn) => ColLike(r.first_name, Contains(fn))
                 /\ Truthy(ln) => ColLike(r.last_name, Contains(ln))
                 /\ Truthy(em) => ColLike(r.email, Contains(em))}}

\* find_client: cur.execute(query, params) fails in psycopg2, before anything is sent,
\* when params holds more values than the query has placeholders
find_client(c) ==
    /\ Ready(c)
    /\ \E fn \in FindFirstNames(conns) : \E ln \in FindLastNames(conns) :
       \E em \in FindEmails(conns) : \E ph \in FindPhones(conns) :
        /\ call' = [call EXCEPT ![c] = [NoCall EXCEPT !.op = "find_client", !.first_name = fn,
                                           !.last_name = ln, !.email = em, !.phone = ph]]
        /\ IF Len(FindParams(fn, ln, em, ph)) # FindPlaceholders(fn, ln, em, ph)
           THEN /\ result' = [result EXCEPT ![c] = Error("TypeError", "")]
                /\ UNCHANGED tx
           ELSE IF tx[c].status = "aborted"
           THEN /\ result' = [result EXCEPT ![c] = Error("InternalError", "InFailedSqlTransaction")]
                /\ UNCHANGED tx
           ELSE /\ result' = [result EXCEPT ![c] =
                                 Ok(NoId, FindRows(ViewClients(c), ViewPhones(c), fn, ln, em, ph))]
                /\ tx' = [tx EXCEPT ![c] = Active(@)]
    /\ pc' = [pc EXCEPT ![c] = "done"]
    /\ stack' = [stack EXCEPT ![c] = <<>>]
    /\ loc' = [loc EXCEPT ![c] = NoLoc]
    /\ pre' = [pre EXCEPT ![c] = [clients |-> clients, phones |-> phones]]
    /\ budget' = budget - 1
    /\ UNCHANGED <<db, seqs, conns>>

(***************************************************************************)
(* The database ends a deadlock by failing the statement of one waiter.    *)
(***************************************************************************)
deadlock_detected(c) ==
    /\ c \in conns
    /\ \E d \in WaitsFor(c) : c \in WaitsFor(d)
    /\ Raise(c, "OperationalError", "DeadlockDetected")
    /\ UNCHANGED <<db, seqs, call, loc, pre, conns, budget>>

(***************************************************************************)
(* The system.                                                             *)
(***************************************************************************)
InitCommon ==
    /\ clients = {} /\ phones = {}
    /\ client_seq = 0 /\ phone_seq = 0
    /\ tx = [c \in Conns |-> IdleTx]
    /\ call = [c \in Conns |-> NoCall]
    /\ stack = [c \in Conns |-> <<>>]
    /\ pc = [c \in Conns |-> "idle"]
    /\ loc = [c \in Conns |-> NoLoc]
    /\ result = [c \in Conns |-> NoResult]
    /\ pre = [c \in Conns |-> [clients |-> {}, phones |-> {}]]

\* one connection: the calls run one after the other
Init == InitCommon /\ conns = {"a"} /\ budget = MaxCalls

\* two connections: the steps of their calls interleave
InitConc == InitCommon /\ conns = Conns /\ budget = MaxConcCalls

Step(c) ==
    \/ add_client_call(c)
    \/ add_client_insert(c)
    \/ add_client_commit(c)
    \/ add_or_update_client_call(c)
    \/ add_or_update_client_select(c)
    \/ add_phone_call(c)
    \/ add_phone_insert(c)
    \/ add_phone_commit(c)
    \/ change_client_call(c)
    \/ change_client_update(c)
    \/ change_client_delete(c)
    \/ change_client_commit(c)
    \/ delete_phone_call(c)
    \/ delete_phone_delete(c)
    \/ delete_phone_commit(c)
    \/ delete_client_call(c)
    \/ delete_client_delete(c)
    \/ delete_client_commit(c)
    \/ find_client(c)

Next == \E c \in Conns : Step(c)
NextConc == \E c \in Conns : Step(c) \/ deadlock_detected(c)

Spec == Init /\ [][Next]_vars
SpecConc == InitConc /\ [][NextConc]_vars

(***************************************************************************)
(* Well-formedness of the model's states.                                  *)
(***************************************************************************)
TypeOK ==
    /\ \A r \in clients : r.client_id \in 1..client_seq /\ r.first_name # None /\ r.last_name # None
    /\ \A p \in phones : p.phone_id \in 1..phone_seq /\ p.phone_number # None
    /\ \A r1 \in clients : \A r2 \in clients : r1.client_id = r2.client_id => r1 = r2
    /\ \A p1 \in phones : \A p2 \in phones : p1.phone_id = p2.phone_id => p1 = p2
    /\ ForeignKeyHolds(clients, phones)
    /\ \A c \in Conns :
          /\ tx[c].status \in {"idle", "active", "aborted"}
          /\ tx[c].status # "active" => tx[c] \in {IdleTx, AbortedTx}
          /\ pc[c] \in {"idle", "done"} =>
                tx[c].wcl = {} /\ tx[c].dcl = {} /\ tx[c].wph = {} /\ tx[c].dph = {}
          /\ (pc[c] \in {"idle", "done"}) = (stack[c] = <<>>)
    /\ \A c \in Conns : \A d \in Conns \ {c} :
          /\ tx[c].dcl \cap tx[d].dcl = {}
          /\ tx[c].dph \cap tx[d].dph = {}

(***************************************************************************)
(* Vocabulary of the properties.                                           *)
(***************************************************************************)
Committed == [clients |-> clients, phones |-> phones]

Ids(rows) == {r.client_id : r \in rows}

\* the phone numbers of client id in the table state prows, with multiplicities
NumbersOf(prows, id) ==
    LET own == {p \in prows : p.client_id = id}
    IN [n \in {p.phone_number : p \in own} |-> Cardinality({p \in own : p.phone_number = n})]

\* the entries of the list L, with multiplicities
ListBag(L) ==
    [n \in {L[i] : i \in 1..Len(L)} |-> Cardinality({i \in 1..Len(L) : L[i] = n})]

\* every entry of the phone list can be stored
ValidPhones(L) ==
    L = NoneList \/ \A i \in 1..Len(L) : L[i] # None /\ ~ TooLong(L[i], PhoneMaxLen)

\* the last call of c was op and has ended
Ended(c, op) == c \in conns /\ call[c].op = op /\ pc[c] = "done"

\* e occurs in s as a run of consecutive characters
IsSubstring(e, s) == \E k \in 0..(Len(s) - Len(e)) : SubSeq(s, k + 1, k + Len(e)) = e

\* e holds none of the characters that LIKE reads as pattern syntax
NoWildcard(e) == \A i \in 1..Len(e) : e[i] \notin {"%", "_", "\\"}

(***************************************************************************)
(* C1: add_client with a phone list is all-or-nothing: when the insert of  *)
(* a phone of the list fails, the committed tables equal those before the  *)
(* call (no new client row, none of the list's phones).                    *)
(***************************************************************************)
C1_AddClientAllOrNothing ==
    \A c \in conns :
        (Ended(c, "add_client") /\ result[c].status = "error" /\ loc[c].i > 0)
            => Committed = pre[c]

(***************************************************************************)
(* C2: change_client with a phone list L replaces the phones atomically:   *)
(* in every committed state while or after the call runs, the client's     *)
(* phones are exactly those before the call or exactly the entries of L.   *)
(***************************************************************************)
C2_PhonesReplacedAtomically ==
    \A c \in conns :
        (/\ call[c].op = "change_client" /\ pc[c] # "idle"
         /\ call[c].phones # NoneList /\ ValidPhones(call[c].phones)
         /\ call[c].client_id \in Ids(pre[c].clients))
            => NumbersOf(phones, call[c].client_id)
                   \in {NumbersOf(pre[c].phones, call[c].client_id), ListBag(call[c].phones)}

(***************************************************************************)
(* C3: in every committed state reached by any interleaving of the calls,  *)
(* no two distinct clients have the same non-null email.                   *)
(***************************************************************************)
C3_EmailUniqueCommitted == EmailUnique(clients)

\* two clients are committed, one with an email, and a call was refused for a duplicate email
C3_Witness ==
    /\ \E r1 \in clients : \E r2 \in clients : r1.client_id # r2.client_id /\ r1.email # None
    /\ \E c \in conns : pc[c] = "done" /\ result[c].cause = "UniqueViolation"

(***************************************************************************)
(* C4: two connections run add_or_update_client for the same email that no *)
(* client had at their lookups: the committed clients never hold that      *)
(* email twice, and the caller whose INSERT runs when the other's client   *)
(* is already committed ends with the unique violation as a ValueError,    *)
(* rolled back, and not with a returned id.                                *)
(***************************************************************************)
C4_UpsertRace ==
    /\ [](\A c \in conns : \A d \in conns :
             (c # d /\ call[c].op = "add_or_update_client" /\ call[d].op = "add_or_update_client"
              /\ call[c].email = call[d].email /\ call[c].email # None)
                 => Cardinality({r \in clients : r.email = call[c].email}) <= 1)
    /\ [][\A c \in conns :
             (/\ call[c].op = "add_or_update_client" /\ pc[c] = "ac_insert"
              /\ \E r \in clients : r.email = call[c].email
              /\ pc'[c] # "ac_insert")
                 => /\ result'[c] = Error("ValueError", "UniqueViolation")
                    /\ pc'[c] = "done"
                    /\ tx'[c] = IdleTx
                    /\ clients' = clients /\ phones' = phones]_vars

\* both callers found no client at their lookup; one returned the id of the client
\* that now has the email, the other ended with the unique violation
C4_Witness ==
    \E c \in conns : \E d \in conns :
        /\ c # d
        /\ Ended(c, "add_or_update_client") /\ Ended(d, "add_or_update_client")
        /\ call[c].email = call[d].email
        /\ loc[c].existing = NoId /\ loc[d].existing = NoId
        /\ result[c] = Error("ValueError", "UniqueViolation")
        /\ result[d].status = "ok"
        /\ \E r \in clients : r.client_id = result[d].id /\ r.email = call[d].email

(***************************************************************************)
(* C5: add_or_update_client with a non-null email e (and a phone list that *)
(* can be stored, if any): when no client has e the call creates one       *)
(* client; when a client has e the call returns that client's id, leaves   *)
(* the number of client rows unchanged and sets its first and last name to *)
(* the call's values; exactly one client has e afterwards.                 *)
(***************************************************************************)
C5_UpsertBody(c) ==
    LET e == call[c].email
        old == {r \in pre[c].clients : r.email = e}
    IN /\ result[c].status = "ok"
       /\ Cardinality({r \in clients : r.email = e}) = 1
       /\ \E r \in clients :
             /\ r.client_id = result[c].id /\ r.email = e
             /\ r.first_name = call[c].first_name /\ r.last_name = call[c].last_name
       /\ IF old # {}
          THEN /\ result[c].id \in Ids(old)
               /\ Cardinality(clients) = Cardinality(pre[c].clients)
          ELSE /\ result[c].id \notin Ids(pre[c].clients)
               /\ Cardinality(clients) = Cardinality(pre[c].clients) + 1

C5_UpsertTwice ==
    \A c \in conns :
        (/\ Ended(c, "add_or_update_client")
         /\ call[c].email # None /\ ValidPhones(call[c].phones))
            => C5_UpsertBody(c)

\* the same, for the calls that did not find the connection's transaction aborted
C5_UpsertTwiceUsable ==
    \A c \in conns :
        (/\ Ended(c, "add_or_update_client")
         /\ call[c].email # None /\ ValidPhones(call[c].phones)
         /\ result[c].cause # "InFailedSqlTransaction")
            => C5_UpsertBody(c)

(***************************************************************************)
(* C6: change_client that raises an error commits nothing: the committed   *)
(* tables after the error equal those before the call.                     *)
(***************************************************************************)
C6_ChangeClientErrorCommitsNothing ==
    \A c \in conns :
        (/\ Ended(c, "change_client") /\ result[c].status = "error"
         /\ call[c].client_id \in Ids(pre[c].clients))
            => Committed = pre[c]

(***************************************************************************)
(* C7: add_client with a non-null email that a client already has ends     *)
(* with the unique violation as a ValueError, and the committed tables     *)
(* equal those before the call.                                            *)
(***************************************************************************)
C7_DuplicateBody(c) ==
    /\ result[c] = Error("ValueError", "UniqueViolation")
    /\ Committed = pre[c]

C7_DuplicateEmailRejected ==
    \A c \in conns :
        (/\ Ended(c, "add_client") /\ call[c].email # None
         /\ \E r \in pre[c].clients : r.email = call[c].email)
            => C7_DuplicateBody(c)

\* the same, for the calls that did not find the connection's transaction aborted
C7_DuplicateEmailRejectedUsable ==
    \A c \in conns :
        (/\ Ended(c, "add_client") /\ call[c].email # None
         /\ \E r \in pre[c].clients : r.email = call[c].email
         /\ result[c].cause # "InFailedSqlTransaction")
            => C7_DuplicateBody(c)

(***************************************************************************)
(* C8: find_client with a phone filter ignores first_name, last_name and   *)
(* email: it returns, and what it returns are the records of the call with *)
(* the phone filter alone.                                                 *)
(***************************************************************************)
C8_PhoneFilterAlone ==
    \A c \in conns :
        (Ended(c, "find_client") /\ Truthy(call[c].phone) /\ tx[c].status # "aborted")
            => /\ result[c].status = "ok"
               /\ result[c].rows = FindRows(clients, phones, None, None, None, call[c].phone)

(***************************************************************************)
(* C9: after add_client succeeds with an email different from the email of *)
(* every other client, find_client(email=email) returns exactly one        *)
(* record, and its first name, last name and email equal the inputs.       *)
(***************************************************************************)
C9_Created(c) == Ended(c, "add_client") /\ result[c].status = "ok" /\ call[c].email # None

C9_FindsInputs(c) ==
    LET rows == FindRows(clients, phones, None, None, call[c].email, None)
    IN /\ Cardinality(rows) = 1
       /\ \A r \in rows :
             /\ r.client_id = result[c].id
             /\ r.first_name = call[c].first_name
             /\ r.last_name = call[c].last_name
             /\ r.email = call[c].email

C9_CreateThenFindOne ==
    \A c \in conns :
        (/\ C9_Created(c)
         /\ \A o \in clients : o.client_id # result[c].id => o.email # call[c].email)
            => C9_FindsInputs(c)

\* C9 as amended: the email is non-empty, holds no LIKE pattern character, and
\* does not occur inside the email of any other client
C9_CreateThenFindOneNoSubstring ==
    \A c \in conns :
        (/\ C9_Created(c)
         /\ Truthy(call[c].email) /\ NoWildcard(call[c].email)
         /\ \A o \in clients :
               o.client_id # result[c].id =>
                   (o.email = None \/ ~ IsSubstring(call[c].email, o.email)))
            => C9_FindsInputs(c)

\* a client was created with an email while another client has a different email
C9_Witness ==
    \E c \in conns :
        /\ C9_Created(c) /\ NoWildcard(call[c].email)
        /\ \E o \in clients :
              /\ o.client_id # result[c].id /\ o.email # None
              /\ ~ IsSubstring(call[c].email, o.email)
        /\ \A o \in clients :
              o.client_id # result[c].id =>
                  (o.email = None \/ ~ IsSubstring(call[c].email, o.email))
        /\ \E r \in clients : r.client_id = result[c].id

(***************************************************************************)
(* C10: change_client is a sparse update: while and after it runs, each of *)
(* first name, last name, email and the phones that is not supplied keeps  *)
(* its value for the target client, every other client and its phones are  *)
(* unchanged, no client appears or disappears, and a call that supplies    *)
(* nothing leaves the committed tables unchanged.                          *)
(***************************************************************************)
C10_SparseUpdate ==
    \A c \in conns :
        (call[c].op = "change_client" /\ pc[c] # "idle") =>
            LET id == call[c].client_id
                cl == call[c]
            IN /\ Ids(clients) = Ids(pre[c].clients)
               /\ \A r \in clients : \A o \in pre[c].clients :
                     r.client_id = o.client_id =>
                         /\ r.client_id # id => r = o
                         /\ cl.first_name = None => r.first_name = o.first_name
                         /\ cl.last_name = None => r.last_name = o.last_name
                         /\ cl.email = None => r.email = o.email
               /\ {p \in phones : p.client_id # id} = {p \in pre[c].phones : p.client_id # id}
               /\ cl.phones = NoneList => phones = pre[c].phones
               /\ (cl.first_name = None /\ cl.last_name = None /\ cl.email = None
                   /\ cl.phones = NoneList) => Committed = pre[c]

\* a call that supplied only the first name changed it on a client that has an email
\* and phones, while another client exists
C10_Witness ==
    \E c \in conns :
        /\ Ended(c, "change_client") /\ result[c].status = "ok"
        /\ call[c].first_name # None /\ call[c].last_name = None
        /\ call[c].email = None /\ call[c].phones = NoneList
        /\ \E r \in clients : \E o \in pre[c].clients :
              /\ r.client_id = call[c].client_id /\ o.client_id = call[c].client_id
              /\ r.first_name = call[c].first_name /\ o.first_name # call[c].first_name
              /\ r.email # None
        /\ \E p \in phones : p.client_id = call[c].client_id
        /\ \E r \in clients : r.client_id # call[c].client_id

(***************************************************************************)
(* C11: after change_client returns without error for a client id and a    *)
(* phone list L, the phone rows of that client are exactly the entries of  *)
(* L, duplicates kept, whatever phones the client had before the call.     *)
(***************************************************************************)
C11_PhonesSuperseded ==
    \A c \in conns :
        (/\ Ended(c, "change_client") /\ result[c].status = "ok"
         /\ call[c].phones # NoneList /\ call[c].client_id # NoId)
            => NumbersOf(phones, call[c].client_id) = ListBag(call[c].phones)

\* a call with a list that holds one number twice succeeded on a client that had a
\* phone with a number outside the list
C11_Witness ==
    \E c \in conns :
        /\ Ended(c, "change_client") /\ result[c].status = "ok"
        /\ call[c].phones # NoneList
        /\ \E i \in 1..Len(call[c].phones) : \E j \in 1..Len(call[c].phones) :
              i # j /\ call[c].phones[i] = call[c].phones[j]
        /\ \E p \in pre[c].phones :
              /\ p.client_id = call[c].client_id
              /\ \A i \in 1..Len(call[c].phones) : call[c].phones[i] # p.phone_number
        /\ \E r \in clients : r.client_id = call[c].client_id

(***************************************************************************)
(* C12: after delete_client(id) the committed tables hold no client id and *)
(* no phone row that references id, every other client and its phones are  *)
(* unchanged, find_client() returns no record with that id, and for an id  *)
(* that no client has the call raises no error and changes nothing.        *)
(***************************************************************************)
C12_DeleteBody(c) ==
    LET id == call[c].client_id
    IN /\ result[c].status = "ok"
       /\ id \notin Ids(clients)
       /\ \A p \in phones : p.client_id # id
       /\ clients = {r \in pre[c].clients : r.client_id # id}
       /\ phones = {p \in pre[c].phones : p.client_id # id}
       /\ \A rec \in FindRows(clients, phones, None, None, None, None) : rec.client_id # id
       /\ id \notin Ids(pre[c].clients) => Committed = pre[c]

C12_DeleteClient ==
    \A c \in conns : Ended(c, "delete_client") => C12_DeleteBody(c)

\* the same, for the calls that did not find the connection's transaction aborted
C12_DeleteClientUsable ==
    \A c \in conns :
        (Ended(c, "delete_client") /\ result[c].cause # "InFailedSqlTransaction")
            => C12_DeleteBody(c)

(***************************************************************************)
(* C13: in every committed state, every phone row references a client that *)
(* exists in that state; no phone row is without a client.                 *)
(***************************************************************************)
C13_NoOrphanPhones == \A p \in phones : p.client_id \in Ids(clients)

\* the part that the foreign key enforces: a reference that is not NULL resolves
C13_NonNullReferencesResolve == ForeignKeyHolds(clients, phones)

(***************************************************************************)
(* C14: add_phone with a client id that no client has, and a number that   *)
(* can be stored, ends with the foreign-key violation, and the committed   *)
(* tables equal those before the call (no phone row is inserted).          *)
(***************************************************************************)
C14_UnknownId(c) ==
    /\ Ended(c, "add_phone")
    /\ call[c].client_id # NoId /\ call[c].client_id \notin Ids(pre[c].clients)
    /\ call[c].phone # None /\ ~ TooLong(call[c].phone, PhoneMaxLen)

C14_RejectedBody(c) ==
    /\ result[c] = Error("IntegrityError", "ForeignKeyViolation")
    /\ Committed = pre[c]

C14_UnknownIdRejected == \A c \in conns : C14_UnknownId(c) => C14_RejectedBody(c)

\* the same, for the calls that did not find the connection's transaction aborted
C14_UnknownIdRejectedUsable ==
    \A c \in conns :
        (C14_UnknownId(c) /\ result[c].cause # "InFailedSqlTransaction") => C14_RejectedBody(c)

(***************************************************************************)
(* C15: delete_phone(client_id, phone) returns without error, removes the  *)
(* phone rows with exactly that client and number and no other row, and    *)
(* leaves every client unchanged; when no row matches, the committed       *)
(* tables equal those before the call.                                     *)
(***************************************************************************)
C15_DeleteBody(c) ==
    LET match == {p \in pre[c].phones :
                     p.client_id = call[c].client_id /\ p.phone_number = call[c].phone}
    IN /\ result[c].status = "ok"
       /\ clients = pre[c].clients
       /\ phones = pre[c].phones \ match
       /\ match = {} => Committed = pre[c]

C15_DeletePhoneExact ==
    \A c \in conns : Ended(c, "delete_phone") => C15_DeleteBody(c)

\* the same, for the calls that did not find the connection's transaction aborted
C15_DeletePhoneExactUsable ==
    \A c \in conns :
        (Ended(c, "delete_phone") /\ result[c].cause # "InFailedSqlTransaction")
            => C15_DeleteBody(c)

(***************************************************************************)
(* C16: a find_client call that does not combine phone with another filter *)
(* returns exactly one record per client that satisfies the filter: every  *)
(* client without a filter; the clients whose first name, last name and    *)
(* email each contain the supplied value as a substring; or the clients    *)
(* with a phone number that contains the phone value.  Each record carries *)
(* all phone numbers of its client, none for a client without phones.      *)
(***************************************************************************)
C16_Returned(c) ==
    /\ Ended(c, "find_client") /\ result[c].status = "ok"
    /\ ~ (Truthy(call[c].phone)
          /\ (Truthy(call[c].first_name) \/ Truthy(call[c].last_name) \/ Truthy(call[c].email)))

\* the column value v contains the filter value f; a filter that is None or empty is not supplied
C16_Has(v, f) == Truthy(f) => (v # None /\ IsSubstring(f, v))

C16_Satisfies(r, cl) ==
    IF Truthy(cl.phone)
    THEN \E p \in phones : p.client_id = r.client_id /\ IsSubstring(cl.phone, p.phone_number)
    ELSE /\ C16_Has(r.first_name, cl.first_name)
         /\ C16_Has(r.last_name, cl.last_name)
         /\ C16_Has(r.email, cl.email)

\* the phone list [NULL]
C16_NullList == [n \in {None} |-> 1]

C16_Expected(cl, nophones) ==
    {[client_id |-> r.client_id, first_name |-> r.first_name, last_name |-> r.last_name,
      email |-> r.email,
      phones |-> IF \E p \in phones : p.client_id = r.client_id
                 THEN NumbersOf(phones, r.client_id) ELSE nophones] :
        r \in {r \in clients : C16_Satisfies(r, cl)}}

C16_FindExact ==
    \A c \in conns :
        C16_Returned(c) => result[c].rows = C16_Expected(call[c], ListBag(<<>>))

\* C16 as amended: the filter values hold no LIKE pattern character, and the record
\* of a client without phones carries the list [NULL]
C16_FindExactNoWildcard ==
    \A c \in conns :
        (/\ C16_Returned(c)
         /\ \A f \in {call[c].first_name, call[c].last_name, call[c].email, call[c].phone} :
               Truthy(f) => NoWildcard(f))
            => result[c].rows = C16_Expected(call[c], C16_NullList)

\* a call with an email filter returned some clients and not others, one of the
\* records with a phone number
C16_Witness ==
    \E c \in conns :
        /\ C16_Returned(c) /\ Truthy(call[c].email) /\ NoWildcard(call[c].email)
        /\ \E rec \in result[c].rows : \E n \in DOMAIN rec.phones : n # None
        /\ \E r \in clients : \A rec \in result[c].rows : rec.client_id # r.client_id

(***************************************************************************)
(* C17: after a mutating call (add_client, add_or_update_client,           *)
(* add_phone, change_client, delete_phone, delete_client) ends with an     *)
(* error, the connection has no open and no aborted transaction: the       *)
(* failed work was rolled back before the error reached the caller.        *)
(***************************************************************************)
C17_Mutating ==
    {"add_client", "add_or_update_client", "add_phone", "change_client", "delete_phone",
     "delete_client"}

C17_RolledBackOnError ==
    \A c \in conns :
        (pc[c] = "done" /\ call[c].op \in C17_Mutating /\ result[c].status = "error")
            => tx[c] = IdleTx

\* the part that the except clause of add_or_update_client provides
C17_UpsertRolledBackOnError ==
    \A c \in conns :
        (Ended(c, "add_or_update_client") /\ result[c].status = "error") => tx[c] = IdleTx

(***************************************************************************)
(* C18: at the step at which add_or_update_client returns an id for a      *)
(* non-null email e, the committed clients hold a client with that id and  *)
(* email e, whatever another connection did to that client between the     *)
(* lookup and the write.                                                   *)
(***************************************************************************)
C18_UpsertReturnsExistingClient ==
    [][\A c \in conns :
          (/\ call[c].op = "add_or_update_client" /\ call[c].email # None
           /\ pc[c] # "done" /\ pc'[c] = "done" /\ result'[c].status = "ok")
              => \E r \in clients' : r.client_id = result'[c].id /\ r.email = call[c].email]_vars

\* C18 for the calls whose lookup found a client and that pass no phone list, so that
\* one UPDATE and one commit follow the lookup: at the return, the committed clients
\* hold a client with the returned id and the email
C18_UpdatePathReturnsExistingClient ==
    [][\A c \in conns :
          (/\ call[c].op = "add_or_update_client" /\ call[c].email # None
           /\ loc[c].existing # NoId /\ call[c].phones = NoneList
           /\ pc[c] # "done" /\ pc'[c] = "done" /\ result'[c].status = "ok")
              => \E r \in clients' : r.client_id = result'[c].id /\ r.email = call[c].email]_vars

(***************************************************************************)
(* C19: change_client with a client id that no client has never creates a  *)
(* client: without a phone list, or with an empty one, it returns without  *)
(* error; with a phone list that is not empty it raises an error; in both  *)
(* cases the committed tables equal those before the call.                 *)
(***************************************************************************)
C19_UnknownId(c) ==
    /\ Ended(c, "change_client")
    /\ call[c].client_id # NoId /\ call[c].client_id \notin Ids(pre[c].clients)

C19_Body(c) ==
    /\ result[c].status = IF call[c].phones \in {NoneList, <<>>} THEN "ok" ELSE "error"
    /\ Committed = pre[c]

C19_ChangeClientNeverCreates == \A c \in conns : C19_UnknownId(c) => C19_Body(c)

\* the same, for the calls that did not find the connection's transaction aborted
C19_ChangeClientNeverCreatesUsable ==
    \A c \in conns :
        (C19_UnknownId(c) /\ result[c].cause # "InFailedSqlTransaction") => C19_Body(c)

====
